---- MODULE Spec2Model ----
(***************************************************************************)
(* SourceWeaver (src/src/main.rs): one run of main over a directory tree.  *)
(* The tree is given as the pre-order enumeration the directory walker     *)
(* would produce with nothing skipped; the walker, the filter_entry        *)
(* predicate, the loop of generate_markdown, process_file and the three    *)
(* destinations (clipboard buffer, output file, standard output) are       *)
(* modelled from the source.  The document is a sequence of lines, a line  *)
(* a sequence of tokens, so that a content line made of a fence delimiter  *)
(* is the same line as a fence written by process_file.                    *)
(***************************************************************************)
EXTENDS Integers, Sequences, FiniteSets, TLC

\* ------------------------------------------------------------------ bounds
\* entries under the root in the tree of Spec
MaxEntries == 2
\* bytes of the file rendered in SpecRender
MaxLen == 3

\* ------------------------------------------------------------- byte tokens
\* One token per byte class that the code distinguishes: a plain character,
\* line feed, carriage return, a run of three backticks (BT3), a null byte,
\* and a byte sequence that is not valid UTF-8 (BAD).  REPL is the
\* replacement character that lossy decoding puts in the place of BAD.
Bytes == {"a", "LF", "CR", "BT3", "NUL", "BAD"}

\* the line that opens (without a tag) or closes a fenced block
FENCE == <<"BT3">>

LOCK_FILES ==
  {"Cargo.lock", "package-lock.json", "yarn.lock", "poetry.lock", "Gemfile.lock",
   "composer.lock", "Pipfile.lock", "go.sum", "flake.lock"}

\* basename of the k-th enumerated entry unless it carries a lockfile name
PlainNames == <<"a.rs", "b.png", "c.py", "d">>

\* Path::extension of the basenames used in the trees
Extension(name) ==
  CASE name = "a.rs" -> "rs"
    [] name = "b.png" -> "png"
    [] name = "c.py" -> "py"
    [] name = "Cargo.lock" -> "lock"
    [] OTHER -> ""

get_language_tag(ext) ==
  CASE ext = "rs" -> "rust"
    [] ext \in {"py", "pyw"} -> "python"
    [] ext \in {"js", "mjs", "cjs"} -> "javascript"
    [] ext \in {"ts", "mts", "cts"} -> "typescript"
    [] ext = "java" -> "java"
    [] ext \in {"c", "h"} -> "c"
    [] ext \in {"cpp", "hpp", "cxx", "hxx", "cc", "hh"} -> "cpp"
    [] ext = "cs" -> "csharp"
    [] ext = "go" -> "go"
    [] ext = "php" -> "php"
    [] ext = "rb" -> "ruby"
    [] ext = "swift" -> "swift"
    [] ext \in {"kt", "kts"} -> "kotlin"
    [] ext = "scala" -> "scala"
    [] ext = "pl" -> "perl"
    [] ext \in {"sh", "bash", "zsh"} -> "bash"
    [] ext = "ps1" -> "powershell"
    [] ext \in {"html", "htm"} -> "html"
    [] ext = "css" -> "css"
    [] ext \in {"scss", "sass"} -> "scss"
    [] ext = "less" -> "less"
    [] ext = "json" -> "json"
    [] ext \in {"yaml", "yml"} -> "yaml"
    [] ext = "toml" -> "toml"
    [] ext \in {"md", "markdown"} -> "markdown"
    [] ext = "sql" -> "sql"
    [] ext = "xml" -> "xml"
    [] ext \in {"dockerfile", "containerfile"} -> "dockerfile"
    [] ext = "nix" -> "nix"
    [] ext = "lua" -> "lua"
    [] ext = "r" -> "r"
    [] ext = "dart" -> "dart"
    [] ext \in {"ex", "exs"} -> "elixir"
    [] ext \in {"erl", "hrl"} -> "erlang"
    [] ext = "hs" -> "haskell"
    [] ext \in {"clj", "cljs", "cljc", "edn"} -> "clojure"
    [] ext \in {"groovy", "gradle"} -> "groovy"
    [] ext = "tf" -> "terraform"
    [] ext = "vue" -> "vue"
    [] ext = "svelte" -> "svelte"
    [] ext = "tex" -> "latex"
    [] ext = "zig" -> "zig"
    [] OTHER -> ""

\* ------------------------------------------------------------ pure helpers
RECURSIVE Flatten(_)
\* concatenation of a sequence of sequences
Flatten(ss) == IF ss = <<>> THEN <<>> ELSE Head(ss) \o Flatten(Tail(ss))

\* all sequences over S of length at most n
SeqsUpTo(S, n) == UNION {[1..k -> S] : k \in 0..n}

\* String::from_utf8_lossy: invalid sequences become the replacement character
from_utf8_lossy(content) ==
  [k \in 1..Len(content) |-> IF content[k] = "BAD" THEN "REPL" ELSE content[k]]

\* String::from_utf8(..).is_ok()
from_utf8_ok(bytes) == \A k \in 1..Len(bytes) : bytes[k] # "BAD"

\* content_inspector scans at most this many leading bytes for a null byte
MAX_SCAN_SIZE == 1024

Min(a, b) == IF a < b THEN a ELSE b

\* content_inspector::inspect(&content) == ContentType::BINARY
inspect_BINARY(content) ==
  \E k \in 1..Min(Len(content), MAX_SCAN_SIZE) : content[k] = "NUL"

RECURSIVE SplitInclusive(_, _)
\* str::split_inclusive('\n'): the pieces of s, each keeping its final LF;
\* acc is the piece under construction
SplitInclusive(s, acc) ==
  IF s = <<>> THEN (IF acc = <<>> THEN <<>> ELSE <<acc>>)
  ELSE IF Head(s) = "LF" THEN <<Append(acc, "LF")>> \o SplitInclusive(Tail(s), <<>>)
  ELSE SplitInclusive(Tail(s), Append(acc, Head(s)))

\* a line splitter that strips the LF and leaves a CR before it in the line
StripLineEnd_KeepsCR(piece) ==
  IF piece # <<>> /\ piece[Len(piece)] = "LF"
  THEN SubSeq(piece, 1, Len(piece) - 1)
  ELSE piece

\* what str::lines maps over each piece: strip one final LF, and then, only
\* if an LF was stripped, one final CR
StripLineEnd(piece) ==
  IF piece # <<>> /\ piece[Len(piece)] = "LF"
  THEN LET l == SubSeq(piece, 1, Len(piece) - 1)
       IN IF l # <<>> /\ l[Len(l)] = "CR" THEN SubSeq(l, 1, Len(l) - 1) ELSE l
  ELSE piece

\* str::lines
StrLines(s) ==
  LET pieces == SplitInclusive(s, <<>>)
  IN [k \in 1..Len(pieces) |-> StripLineEnd(pieces[k])]

\* ------------------------------------------------------------ the tree
\* Identities that fs::canonicalize can return: an entry of the tree is its
\* own index, Ext is one regular file outside the root, NoId says that the
\* path could not be resolved.
Ext == 0
NoId == 0 - 1

\* what a successfully read file can hold in the trees of Spec
TreeContents == {<<"a", "BAD">>, <<"NUL", "a">>}

\* an entry as the walker finds it:
\*   kind  file type of the entry itself (symbolic links not followed)
\*   depth number of path components below the root
\*   skip  "rule": matched by an ignore rule; "dot": the name starts with '.'
\*   tgt   what a symbolic link resolves to: an entry, Ext or NoId (broken)
\*   ok    whether fs::read of the file succeeds, bytes what it returns
Entry(name, kind, depth, skip, tgt, ok, bytes) ==
  [name |-> name, kind |-> kind, depth |-> depth, skip |-> skip, tgt |-> tgt,
   ok |-> ok, bytes |-> bytes]

EntryShapes(k, n, depths) ==
  {Entry(PlainNames[k], "file", d, "none", NoId, TRUE, b) : d \in depths, b \in TreeContents}
  \cup {Entry(PlainNames[k], "file", d, "rule", NoId, TRUE, <<"a">>) : d \in depths}
  \cup {Entry(PlainNames[k], "file", d, "none", NoId, FALSE, <<>>) : d \in depths}
  \cup {Entry("Cargo.lock", "file", d, sk, NoId, TRUE, <<"a">>) :
      d \in depths, sk \in {"none", "rule", "dot"}}
  \cup {Entry(PlainNames[k], "dir", d, sk, NoId, FALSE, <<>>) :
      d \in depths, sk \in {"none", "rule", "dot"}}
  \cup {Entry("Cargo.lock", "dir", d, "none", NoId, FALSE, <<>>) : d \in depths}
  \cup {Entry(PlainNames[k], "symlink", d, "none", t, FALSE, <<>>) :
      d \in depths, t \in ({NoId, Ext} \cup (1..n)) \ {k}}
  \cup {Entry(PlainNames[k], "special", d, "none", NoId, FALSE, <<>>) : d \in depths}

\* depths the entry after the last entry of t can have in a pre-order
\* enumeration: the walker descends into directories only (links not followed)
NextDepths(t) ==
  IF t = <<>> THEN {1}
  ELSE LET l == t[Len(t)] IN 1..(IF l.kind = "dir" THEN l.depth + 1 ELSE l.depth)

RECURSIVE Prefixes(_, _)
\* the pre-order enumerations of k entries, for trees of n entries
Prefixes(k, n) ==
  IF k = 0 THEN {<<>>}
  ELSE UNION {{Append(t, e) : e \in EntryShapes(k, n, NextDepths(t))} : t \in Prefixes(k - 1, n)}

\* index of the directory holding entry i of t, 0 for the root
Parent(t, i) ==
  LET up == {j \in 1..(i - 1) : t[j].depth = t[i].depth - 1}
  IN IF up = {} THEN 0 ELSE CHOOSE j \in up : \A h \in up : h <= j

\* a link resolves to a regular file or a directory of the tree, and no
\* directory holds two entries of one name
WellFormed(t) ==
  /\ \A i \in 1..Len(t) :
        (t[i].kind = "symlink" /\ t[i].tgt \in 1..Len(t)) => t[t[i].tgt].kind \in {"file", "dir"}
  /\ \A i, j \in 1..Len(t) :
        (i < j /\ Parent(t, i) = Parent(t, j)) => t[i].name # t[j].name

Trees(n) == {t \in Prefixes(n, n) : WellFormed(t)}

\* ------------------------------------------------------------------ state
VARIABLES
  mode,      \* Args: "clipboard", "file" (--output) or "stdout"
  hidden,    \* Args.hidden
  rootKind,  \* what --root names: "dir" or "file"
  tree,      \* the entries under the root, in the walker's order
  outAt,     \* where --output points: Ext, or the entry it names; else NoId
  pc,        \* "main", "walk", "clipboard", "set_text", "done"
  canon,     \* canonical_output_path (NoId for None)
  created,   \* the destination file has been created
  pos,       \* next entry the walker looks at (0 is the root itself)
  doc,       \* the lines the writer has accepted
  sections,  \* per call of process_file: the entry, its lines in doc, whether it returned Ok
  result,    \* what main returns: "running", "ok", "err"
  failedAt,  \* the step that made main return Err, "none" otherwise
  ioFailed,  \* a write to the destination has failed (BufWriter spill or flush)
  clip,      \* "untouched", "ready" (Clipboard::new succeeded), "set", "error"
  clipText   \* what set_text handed to the clipboard

vars ==
  <<mode, hidden, rootKind, tree, outAt, pc, canon, created, pos, doc, sections,
    result, failedAt, ioFailed, clip, clipText>>

args == <<mode, hidden, rootKind, tree, outAt>>

\* fs::canonicalize(entry.path()): links are resolved
Canon(i) == IF tree[i].kind = "symlink" THEN tree[i].tgt ELSE i

\* the identity of the file that --output writes to
DestId == IF outAt \in 1..Len(tree) THEN Canon(outAt) ELSE outAt

\* Path::is_file: metadata of the path, links followed
IsFile(i) ==
  LET r == Canon(i) IN r = Ext \/ (r \in 1..Len(tree) /\ tree[r].kind = "file")

\* fs::read(full_path), links followed.  The destination itself, read while
\* the BufWriter is writing it, holds whatever has been spilled so far.
ReadOutcomes(i) ==
  LET r == Canon(i)
  IN IF mode = "file" /\ r = DestId
       THEN {[ok |-> TRUE, bytes |-> b] : b \in TreeContents \cup {<<>>}}
     ELSE IF r = Ext THEN {[ok |-> TRUE, bytes |-> <<"a">>]}
     ELSE {[ok |-> tree[r].ok, bytes |-> tree[r].bytes]}

\* the walker's own exclusions: ignore rules, and dot entries unless --hidden
Ignored(i) == tree[i].skip = "rule" \/ (tree[i].skip = "dot" /\ ~hidden)

\* a filter that has lost its output-file check
filter_entry_NoSelfCheck(i, c) ==
  IF tree[i].kind = "file" /\ tree[i].name \in LOCK_FILES THEN FALSE ELSE TRUE

\* a filter that matches lockfile names without asking whether the entry is a file
filter_entry_LockAnyKind(i, c) ==
  IF c # NoId /\ Canon(i) # NoId /\ Canon(i) = c THEN FALSE
  ELSE IF tree[i].name \in LOCK_FILES THEN FALSE
  ELSE TRUE

\* the filter_entry closure; c is output_path_for_filter
filter_entry(i, c) ==
  IF c # NoId /\ Canon(i) # NoId /\ Canon(i) = c THEN FALSE
  ELSE IF tree[i].kind = "file" /\ tree[i].name \in LOCK_FILES THEN FALSE
  ELSE TRUE

RECURSIVE Yielded(_)
\* the walker yields entry i: it descended into the directory holding it, no
\* ignore rule drops it and filter_entry accepts it (the root is not filtered)
Yielded(i) ==
  IF i = 0 THEN TRUE
  ELSE Yielded(Parent(tree, i)) /\ ~Ignored(i) /\ filter_entry(i, canon)

RECURSIVE RelPath(_)
\* path.strip_prefix(root_dir), as displayed
RelPath(i) ==
  IF Parent(tree, i) = 0 THEN <<tree[i].name>>
  ELSE RelPath(Parent(tree, i)) \o <<"/", tree[i].name>>

Header(i) == <<"## ">> \o RelPath(i)

BinaryNote == <<"(Binary file, content omitted)">>
ErrorNote == <<"(Error reading file: ", "io error", ")">>

OpenFence(name) ==
  LET lang == get_language_tag(Extension(name))
  IN IF lang = "" THEN FENCE ELSE FENCE \o <<lang>>

\* a process_file that writes the header of an unreadable file and nothing else
process_file_DropsUnreadable(i, rd) ==
  << <<<<>>, Header(i), <<>>>> >> \o
  (IF rd.ok
     THEN IF inspect_BINARY(rd.bytes)
            THEN << <<FENCE, BinaryNote, FENCE>> >>
          ELSE LET ls == StrLines(from_utf8_lossy(rd.bytes))
               IN << <<OpenFence(tree[i].name)>> >> \o [k \in 1..Len(ls) |-> <<ls[k]>>]
                    \o << <<FENCE>> >>
   ELSE <<>>)

\* a process_file that renders every readable file as text
process_file_DecodesBinary(i, rd) ==
  << <<<<>>, Header(i), <<>>>> >> \o
  (IF rd.ok
     THEN LET ls == StrLines(from_utf8_lossy(rd.bytes))
          IN << <<OpenFence(tree[i].name)>> >> \o [k \in 1..Len(ls) |-> <<ls[k]>>]
               \o << <<FENCE>> >>
   ELSE << <<FENCE, ErrorNote, FENCE>> >>)

\* process_file: the writeln! calls it makes for entry i when fs::read gave
\* rd, each call as the lines it writes
process_file(i, rd) ==
  << <<<<>>, Header(i), <<>>>> >> \o
  (IF rd.ok
     THEN IF inspect_BINARY(rd.bytes)
            THEN << <<FENCE, BinaryNote, FENCE>> >>
          ELSE LET ls == StrLines(from_utf8_lossy(rd.bytes))
               IN << <<OpenFence(tree[i].name)>> >> \o [k \in 1..Len(ls) |-> <<ls[k]>>]
                    \o << <<FENCE>> >>
   ELSE << <<FENCE, ErrorNote, FENCE>> >>)

\* a write can fail on a BufWriter (file, stdout), never on the Vec<u8>
SinkCanFail == mode # "clipboard"

\* ------------------------------------------------------------------- Init
\* entries that --output can name: a regular file, or a link to one
Creatable(t) ==
  {i \in 1..Len(t) :
     \/ t[i].kind = "file"
     \/ t[i].kind = "symlink" /\ (t[i].tgt = Ext \/ (t[i].tgt \in 1..Len(t) /\ t[t[i].tgt].kind = "file"))}

InitRun ==
  /\ pc = "main"
  /\ canon = NoId
  /\ created = FALSE
  /\ pos = 0
  /\ doc = <<>>
  /\ sections = <<>>
  /\ result = "running"
  /\ failedAt = "none"
  /\ ioFailed = FALSE
  /\ clip = "untouched"
  /\ clipText = <<>>

\* any arguments over any tree of at most MaxEntries entries
Init ==
  /\ mode \in {"clipboard", "file", "stdout"}
  /\ hidden \in BOOLEAN
  /\ rootKind \in {"dir", "file"}
  /\ tree \in UNION {Trees(n) : n \in 0..MaxEntries}
  /\ rootKind = "file" => tree = <<>>
  /\ outAt \in (IF mode = "file" THEN {Ext} \cup Creatable(tree) ELSE {NoId})
  /\ InitRun

\* one readable regular file of at most MaxLen bytes under the root
InitRender ==
  /\ mode \in {"clipboard", "file", "stdout"}
  /\ hidden = FALSE
  /\ rootKind = "dir"
  /\ tree \in {<<Entry(n, "file", 1, "none", NoId, TRUE, b)>> :
                  n \in {"a.rs", "d"}, b \in SeqsUpTo(Bytes, MaxLen)}
  /\ outAt = (IF mode = "file" THEN Ext ELSE NoId)
  /\ InitRun

\* ---------------------------------------------------------------- actions
Fail(step) ==
  /\ result' = "err"
  /\ failedAt' = step
  /\ pc' = "done"

\* a main that initializes the clipboard before generating anything
Main_ClipboardBeforeWalk ==
  /\ pc = "main"
  /\ IF mode = "file"
       THEN \E createOk \in BOOLEAN, canonOk \in BOOLEAN :
              IF createOk
                THEN /\ created' = TRUE
                     /\ canon' = (IF canonOk THEN DestId ELSE NoId)
                     /\ pc' = "walk"
                     /\ UNCHANGED <<result, failedAt>>
              ELSE /\ Fail("create")
                   /\ UNCHANGED <<created, canon>>
     ELSE /\ pc' = (IF mode = "clipboard" THEN "clipboard" ELSE "walk")
          /\ UNCHANGED <<created, canon, result, failedAt>>
  /\ UNCHANGED <<args, pos, doc, sections, ioFailed, clip, clipText>>

\* main up to the call of generate_markdown.  With --output the file is
\* created (which can fail), its path canonicalized (.ok()) and re-opened.
Main ==
  /\ pc = "main"
  /\ IF mode = "file"
       THEN \E createOk \in BOOLEAN, canonOk \in BOOLEAN :
              IF createOk
                THEN /\ created' = TRUE
                     /\ canon' = (IF canonOk THEN DestId ELSE NoId)
                     /\ pc' = "walk"
                     /\ UNCHANGED <<result, failedAt>>
              ELSE /\ Fail("create")
                   /\ UNCHANGED <<created, canon>>
     ELSE /\ pc' = "walk"
          /\ UNCHANGED <<created, canon, result, failedAt>>
  /\ UNCHANGED <<args, pos, doc, sections, ioFailed, clip, clipText>>

\* one turn of `for result in walker`: the walker looks at the next entry,
\* drops it or yields it; the loop body skips the root and whatever is not a
\* file, and calls process_file on the rest.  n is the number of writeln!
\* calls of process_file that succeed.
WalkStep ==
  /\ pc = "walk"
  /\ pos <= Len(tree)
  /\ IF pos = 0 \/ ~Yielded(pos) \/ ~IsFile(pos)
       THEN /\ pos' = pos + 1
            /\ UNCHANGED <<pc, doc, sections, result, failedAt, ioFailed>>
     ELSE \E rd \in ReadOutcomes(pos) :
            LET ws == process_file(pos, rd)
            IN \E n \in 0..Len(ws) :
                 /\ n = Len(ws) \/ SinkCanFail
                 /\ doc' = doc \o Flatten(SubSeq(ws, 1, n))
                 /\ sections' = Append(sections,
                        [entry |-> pos, from |-> Len(doc) + 1, to |-> Len(doc'),
                         ok |-> n = Len(ws), rd |-> rd])
                 /\ IF n = Len(ws)
                      THEN /\ pos' = pos + 1
                           /\ UNCHANGED <<pc, result, failedAt, ioFailed>>
                    ELSE /\ Fail("walk")
                         /\ ioFailed' = TRUE
                         /\ pos' = pos
  /\ UNCHANGED <<args, canon, created, clip, clipText>>

\* main after generate_markdown returned Ok.  clipboard: String::from_utf8 of
\* the buffer.  file: the BufWriter is dropped, which flushes and discards
\* the flush's error.  stdout: handle.flush()?.
Finish ==
  /\ pc = "walk"
  /\ pos > Len(tree)
  /\ CASE mode = "clipboard" ->
             /\ IF from_utf8_ok(Flatten(doc))
                  THEN pc' = "clipboard" /\ UNCHANGED <<result, failedAt>>
                ELSE Fail("utf8")
             /\ UNCHANGED ioFailed
       [] mode = "file" ->
             /\ \E flushFails \in BOOLEAN :
                  /\ flushFails => doc # <<>>
                  /\ ioFailed' = flushFails
             /\ result' = "ok"
             /\ pc' = "done"
             /\ UNCHANGED failedAt
       [] mode = "stdout" ->
             \E flushFails \in BOOLEAN :
               /\ flushFails => doc # <<>>
               /\ ioFailed' = flushFails
               /\ IF flushFails THEN Fail("flush")
                  ELSE result' = "ok" /\ pc' = "done" /\ UNCHANGED failedAt
  /\ UNCHANGED <<args, canon, created, pos, doc, sections, clip, clipText>>

\* Clipboard::new()
ClipboardNew ==
  /\ pc = "clipboard"
  /\ \E ok \in BOOLEAN :
       IF ok THEN clip' = "ready" /\ pc' = "set_text" /\ UNCHANGED <<result, failedAt>>
       ELSE clip' = "error" /\ Fail("clipboard_new")
  /\ UNCHANGED <<args, canon, created, pos, doc, sections, ioFailed, clipText>>

\* clipboard.set_text(output_string)
ClipboardSetText ==
  /\ pc = "set_text"
  /\ \E ok \in BOOLEAN :
       IF ok THEN /\ clip' = "set"
                  /\ clipText' = doc
                  /\ result' = "ok"
                  /\ pc' = "done"
                  /\ UNCHANGED failedAt
       ELSE clip' = "error" /\ Fail("set_text") /\ UNCHANGED clipText
  /\ UNCHANGED <<args, canon, created, pos, doc, sections, ioFailed>>

Next == Main \/ WalkStep \/ Finish \/ ClipboardNew \/ ClipboardSetText

Spec == Init /\ [][Next]_vars

SpecRender == InitRender /\ [][Next]_vars

\* ------------------------------------------------------- reading the state
\* generate_markdown's loop has gone through the whole enumeration
GenDone == pc # "main" /\ pos > Len(tree)

\* the entries process_file was called on, in the order of the calls
Rendered == [k \in 1..Len(sections) |-> sections[k].entry]

\* the lines of doc that a call of process_file wrote
SectionLines(s) == SubSeq(doc, s.from, s.to)

Ids == [k \in 1..Len(tree) |-> k]

RECURSIVE NoIgnoreRule(_)
\* neither entry i nor a directory above it is dropped by the ignore policy
NoIgnoreRule(i) == i = 0 \/ (~Ignored(i) /\ NoIgnoreRule(Parent(tree, i)))

\* entry i is the destination artifact, under whatever name
IsDest(i) == mode = "file" /\ Canon(i) = DestId

NotDest(i) == ~IsDest(i)

\* a regular file that no ignore rule matches, not a lockfile, not the destination
ExpectedFile(i) ==
  /\ tree[i].kind = "file"
  /\ NoIgnoreRule(i)
  /\ tree[i].name \notin LOCK_FILES
  /\ NotDest(i)

\* ------------------------------------------------------------------ claims
\* C1: when generate_markdown completes, the sections are those of the
\* regular files that are not ignored, not lockfiles and not the destination,
\* one each and no others, in the walker's order.  (The destination is left
\* out of the comparison, so that a run that could not resolve it is not
\* counted against the claim.)
C1_ExactlyTheExpectedFiles ==
  GenDone => SelectSeq(Rendered, NotDest) = SelectSeq(Ids, ExpectedFile)

\* C10: no entry that is not a regular file -- the root, a directory, a
\* symbolic link, a special file -- gets a section.
C10_OnlyRegularFilesRendered ==
  \A k \in 1..Len(sections) : tree[sections[k].entry].kind = "file"

\* the section of a call that found the file unreadable / binary
ErrorSection(i) == <<<<>>, Header(i), <<>>, FENCE, ErrorNote, FENCE>>

BinarySection(i) == <<<<>>, Header(i), <<>>, FENCE, BinaryNote, FENCE>>

IsPrefix(a, b) == Len(a) <= Len(b) /\ a = SubSeq(b, 1, Len(a))

\* entry i has a section that process_file finished
HasSection(i) == \E k \in 1..Len(sections) : sections[k].entry = i /\ sections[k].ok

\* C2: with --output, once the destination's canonical identity is known
\* (the file is created before the walk so that it exists), process_file is
\* never called on an entry whose canonical identity is the destination's,
\* whether the entry is the file itself or a link to it.
C2_DestinationNeverRendered ==
  /\ (mode = "file" /\ (pos > 0 \/ sections # <<>>)) => created
  /\ (mode = "file" /\ canon # NoId) =>
        \A k \in 1..Len(sections) : Canon(sections[k].entry) # DestId

\* the walk is over, it met a link to the destination that no ignore rule
\* hides, and it rendered something else
C2_Witness ==
  /\ mode = "file" /\ canon # NoId /\ GenDone /\ sections # <<>>
  /\ \E i \in 1..Len(tree) :
        tree[i].kind = "symlink" /\ Canon(i) = DestId /\ NoIgnoreRule(i)

C5_WriteFailureReported == ioFailed => result = "err"

\* C6: the section of a file classified as binary is the header, a fence
\* without a language tag, the binary note and the closing fence: nothing of
\* the file's bytes is written.
C6_BinaryPlaceholderOnly ==
  \A k \in 1..Len(sections) :
    (sections[k].rd.ok /\ inspect_BINARY(sections[k].rd.bytes)) =>
       /\ IsPrefix(SectionLines(sections[k]), BinarySection(sections[k].entry))
       /\ sections[k].ok => SectionLines(sections[k]) = BinarySection(sections[k].entry)

\* a binary file with other bytes than the null byte, under a name whose
\* extension has a language tag, was rendered
C6_Witness ==
  \E k \in 1..Len(sections) :
    /\ sections[k].ok /\ sections[k].rd.ok
    /\ inspect_BINARY(sections[k].rd.bytes)
    /\ \E j \in 1..Len(sections[k].rd.bytes) : sections[k].rd.bytes[j] = "a"
    /\ OpenFence(tree[sections[k].entry].name) # FENCE

RECURSIVE CrlfToLf(_)
\* s with every CR LF pair replaced by LF
CrlfToLf(s) ==
  IF Len(s) < 2 THEN s
  ELSE IF s[1] = "CR" /\ s[2] = "LF" THEN <<"LF">> \o CrlfToLf(SubSeq(s, 3, Len(s)))
  ELSE <<s[1]>> \o CrlfToLf(Tail(s))

\* the text with its line ends normalized: LF for CR LF, and a final LF
Normalized(s) ==
  LET c == CrlfToLf(s)
  IN IF c = <<>> \/ c[Len(c)] = "LF" THEN c ELSE Append(c, "LF")

\* a finished section of a readable file that is valid UTF-8 and classified as text
TextSection(s) ==
  s.ok /\ s.rd.ok /\ ~inspect_BINARY(s.rd.bytes) /\ from_utf8_ok(s.rd.bytes)

\* the lines between the opening and the closing fence of a finished text section
Body(s) == SubSeq(doc, s.from + 4, s.to - 1)

\* C7: the body of the section of a valid UTF-8 text file is the file's
\* text with normalized line ends: its lines in order, one per output line,
\* each ended by one newline; an empty file gives an empty body between the
\* opening fence (with the language tag) and the closing fence.
C7_TextBodyIsNormalizedContent ==
  \A k \in 1..Len(sections) :
    TextSection(sections[k]) =>
      LET s == sections[k]
          body == Body(s)
      IN /\ SubSeq(doc, s.from, s.from + 3)
               = <<<<>>, Header(s.entry), <<>>, OpenFence(tree[s.entry].name)>>
         /\ doc[s.to] = FENCE
         /\ \A j \in 1..Len(body) : \A h \in 1..Len(body[j]) : body[j][h] # "LF"
         /\ Flatten([j \in 1..Len(body) |-> Append(body[j], "LF")]) = Normalized(s.rd.bytes)
         /\ s.rd.bytes = <<>> => body = <<>>

\* a text file with a CR LF line end was rendered
C7_Witness ==
  \E k \in 1..Len(sections) :
    /\ TextSection(sections[k])
    /\ \E j \in 1..(Len(sections[k].rd.bytes) - 1) :
          sections[k].rd.bytes[j] = "CR" /\ sections[k].rd.bytes[j + 1] = "LF"

\* C8: no body line of a text file's section is itself a closing fence.
C8_NoBodyLineIsAFence ==
  \A k \in 1..Len(sections) :
    TextSection(sections[k]) =>
      \A j \in 1..Len(Body(sections[k])) : Body(sections[k])[j] # FENCE

\* C9: the clipboard is touched only in clipboard mode, after the walk is
\* over, the buffer has passed String::from_utf8 and nothing has failed; what
\* set_text hands over is the whole document.
C9_ClipboardOnlyAfterValidDocument ==
  /\ clip # "untouched" =>
        /\ mode = "clipboard" /\ GenDone
        /\ from_utf8_ok(Flatten(doc))
        /\ failedAt \notin {"walk", "utf8"}
        /\ \A i \in 1..Len(tree) : (Yielded(i) /\ IsFile(i)) => HasSection(i)
  /\ clip = "set" => clipText = doc
  /\ failedAt \in {"walk", "utf8"} => clip = "untouched"

\* a document of two sections, one of them of a file with an invalid byte,
\* reached the clipboard
C9_Witness ==
  /\ clip = "set" /\ Len(sections) = 2 /\ clipText # <<>>
  /\ \E k \in 1..2 : sections[k].rd.ok /\ ~from_utf8_ok(sections[k].rd.bytes)

====
